---- MODULE Spec2Model ----
(***************************************************************************)
(* Model of manual/build.py: the RataDocBuilder documentation build        *)
(* (markdown -> Typst rewriter, content collector, build orchestration,    *)
(* command-line entry point).                                              *)
(*                                                                         *)
(* Text is modelled as a sequence of characters, each character a string   *)
(* of length one.  Some tokens stand for more than their spelling: LF is   *)
(* the newline character, BT the backtick, and each line of the fixed      *)
(* preamble is kept as one token, since no code looks inside it.           *)
(***************************************************************************)
EXTENDS Integers, Sequences, FiniteSets, TLC

VARIABLES
    pc,              \* position of the run
    args_format,     \* main: args.format
    formats,         \* build_all: formats (only membership is tested)
    success,         \* build_all: success
    exit_code,       \* exit code of the process, -1 while running
    files,           \* source tree: manifest index -> [exists, text]
    typ_file,        \* <output>/rata-manual.typ : [exists, text]
    pdf_file,        \* <output>/rata-manual.pdf : exists
    content,         \* collect_markdown_content: content (insertion-ordered dict)
    entry,           \* collect_markdown_content: index of the manifest entry in turn
    warnings,        \* "File not found" messages printed, by manifest index
    typst_content,   \* markdown_to_typst: typst_content
    sec,             \* markdown_to_typst: index into content of the section in turn
    markdown,        \* convert_markdown_section: markdown (the argument)
    lines,           \* convert_markdown_section: lines
    li,              \* convert_markdown_section: index of the line in turn
    typst_lines,     \* convert_markdown_section: typst_lines
    in_code_block,   \* convert_markdown_section: in_code_block
    code_lang,       \* convert_markdown_section: code_lang
    line,            \* convert_markdown_section: line, as last assigned
    ret,             \* value returned by convert_markdown_section
    raised,          \* exception raised and not yet handled ("" if none)
    typst_res,       \* outcome of build_typst: "none", "ok", "fail"
    pdf_res,         \* outcome of build_pdf
    html_res,        \* outcome of build_html
    compiler_calls   \* number of times subprocess.run was called

vars == <<pc, args_format, formats, success, exit_code, files, typ_file,
          pdf_file, content, entry, warnings, typst_content, sec, markdown,
          lines, li,
          typst_lines, in_code_block, code_lang, line, ret, raised, typst_res,
          pdf_res, html_res, compiler_calls>>

buildVars == <<args_format, formats, success, exit_code, files, typ_file,
               pdf_file, content, entry, warnings, typst_content, sec,
               typst_res, pdf_res, html_res, compiler_calls>>

(***************************************************************************)
(* Bounds                                                                  *)
(***************************************************************************)
MaxLen == 3        \* longest section text enumerated exhaustively
MaxLevel == 2      \* deepest heading enumerated
MaxText == 2       \* longest heading text enumerated
ManifestLen == 2   \* number of manifest entries modelled

(***************************************************************************)
(* Characters and strings                                                  *)
(***************************************************************************)
BS == "\\"
LF == "LF"
BT == "BT"
Alphabet == {"#", " ", BT, "*", BS, "n", "a", "|"}

Texts(k) == UNION {[1..m -> Alphabet] : m \in 0..k}

IsSpace(c) == c \in {" ", LF}

StartsWith(s, p) == Len(s) >= Len(p) /\ SubSeq(s, 1, Len(p)) = p

Drop(s, k) == SubSeq(s, k + 1, Len(s))

RECURSIVE Repeat(_, _)
Repeat(c, n) == IF n <= 0 THEN <<>> ELSE <<c>> \o Repeat(c, n - 1)

\* str.lstrip('#')
RECURSIVE LStripHash(_)
LStripHash(s) == IF s # <<>> /\ s[1] = "#" THEN LStripHash(Tail(s)) ELSE s

RECURSIVE LStrip(_)
LStrip(s) == IF s # <<>> /\ IsSpace(s[1]) THEN LStrip(Tail(s)) ELSE s

RECURSIVE RStrip(_)
RStrip(s) ==
    IF s # <<>> /\ IsSpace(s[Len(s)]) THEN RStrip(SubSeq(s, 1, Len(s) - 1)) ELSE s

\* str.strip()
Strip(s) == RStrip(LStrip(s))

\* the separator of split and join: the two characters backslash, n
Sep == <<BS, "n">>

\* index of the first occurrence of Sep in s, 0 if none
FindSep(s) ==
    LET hits == {i \in 1..(Len(s) - 1) : SubSeq(s, i, i + 1) = Sep}
    IN IF hits = {} THEN 0 ELSE CHOOSE i \in hits : \A j \in hits : i <= j

\* str.split(Sep)
RECURSIVE Split(_)
Split(s) ==
    LET i == FindSep(s)
    IN IF i = 0 THEN <<s>>
       ELSE <<SubSeq(s, 1, i - 1)>> \o Split(Drop(s, i + 1))

\* Sep.join(ls)
RECURSIVE Join(_)
Join(ls) ==
    IF ls = <<>> THEN <<>>
    ELSE IF Len(ls) = 1 THEN ls[1]
    ELSE ls[1] \o Sep \o Join(Tail(ls))

(***************************************************************************)
(* Regular expressions of convert_markdown_section                         *)
(***************************************************************************)
\* the pattern of the link rule, character by character
LinkPattern ==
    <<BS, BS, "[", "(", "[", "^", BS, BS, "]", "]", "+", ")", BS, BS, "]",
      BS, BS, "(", "(", "[", "^", ")", "]", "+", ")", BS, BS, ")">>

\* re.compile on p: the scan of the pattern for groups and character sets.
\* A backslash takes the next character with it; "[" opens a set, closed by
\* the first "]" that is not its first member; ")" outside a set closes a
\* group and is an error when none is open.
RECURSIVE ScanPattern(_, _, _, _, _)
ScanPattern(p, i, depth, inSet, setFirst) ==
    IF i > Len(p) THEN (IF inSet \/ depth > 0 THEN "error" ELSE "ok")
    ELSE IF p[i] = BS THEN
        (IF i = Len(p) THEN "error" ELSE ScanPattern(p, i + 2, depth, inSet, FALSE))
    ELSE IF inSet THEN
        (IF p[i] = "]" /\ ~setFirst THEN ScanPattern(p, i + 1, depth, FALSE, FALSE)
         ELSE IF p[i] = "^" /\ setFirst /\ p[i - 1] = "["
              THEN ScanPattern(p, i + 1, depth, TRUE, TRUE)
         ELSE ScanPattern(p, i + 1, depth, TRUE, FALSE))
    ELSE IF p[i] = "[" THEN ScanPattern(p, i + 1, depth, TRUE, TRUE)
    ELSE IF p[i] = "(" THEN ScanPattern(p, i + 1, depth + 1, FALSE, FALSE)
    ELSE IF p[i] = ")" THEN
        (IF depth = 0 THEN "error" ELSE ScanPattern(p, i + 1, depth - 1, FALSE, FALSE))
    ELSE ScanPattern(p, i + 1, depth, FALSE, FALSE)

RegexError(p) == ScanPattern(p, 1, 0, FALSE, FALSE) = "error"

\* length of the longest prefix of s made of characters other than c
RECURSIVE RunLen(_, _)
RunLen(s, c) == IF s = <<>> \/ s[1] = c THEN 0 ELSE 1 + RunLen(Tail(s), c)

\* line 223, re.sub of BT([^BT]+)BT by #raw("\\1"): the replacement template holds an
\* escaped backslash followed by the digit 1, so every span is replaced by
\* the same text and the group is not copied.
RawRepl == <<"#", "r", "a", "w", "(", "\"", BS, "1", "\"", ")">>

RECURSIVE InlineCodeSub(_)
InlineCodeSub(s) ==
    IF s = <<>> THEN <<>>
    ELSE IF s[1] = BT THEN
        LET k == RunLen(Tail(s), BT)
        IN IF k >= 1 /\ Len(s) >= k + 2
           THEN RawRepl \o InlineCodeSub(Drop(s, k + 2))
           ELSE <<s[1]>> \o InlineCodeSub(Tail(s))
    ELSE <<s[1]>> \o InlineCodeSub(Tail(s))

\* re.sub of a pattern <backslash>*<backslash>*([^*]+)<backslash>*<backslash>*:
\* in r'\\*' the star quantifies an escaped backslash, so a match is a
\* maximal run of characters other than the asterisk; each is replaced by
\* repl, whose group reference is again an escaped backslash and a digit.
RECURSIVE RunSub(_, _)
RunSub(s, repl) ==
    IF s = <<>> THEN <<>>
    ELSE IF s[1] = "*" THEN <<"*">> \o RunSub(Tail(s), repl)
    ELSE repl \o RunSub(Drop(s, RunLen(s, "*")), repl)

\* line 226
BoldSub(s) == RunSub(s, <<"*", BS, "1", "*">>)

\* line 229
ItalicSub(s) == RunSub(s, <<"_", BS, "1", "_">>)

(***************************************************************************)
(* convert_markdown_section: one action per way a line is handled          *)
(***************************************************************************)
Fence == <<BT, BT, BT>>
Rata == <<"r", "a", "t", "a">>
RataOpen == <<"#", "r", "a", "t", "a", "-", "c", "o", "d", "e", "[">> \o Fence \o Rata

\* convert_markdown_section keeping the flag of the section before
EnterSectionKeepsFlag(md) ==
    /\ markdown' = md
    /\ lines' = Split(md)
    /\ li' = 1
    /\ typst_lines' = <<>>
    /\ in_code_block' = in_code_block
    /\ code_lang' = code_lang
    /\ line' = <<>>
    /\ ret' = <<>>
    /\ raised' = ""

\* entry of convert_markdown_section(markdown, title), lines 186-189
EnterSection(md) ==
    /\ markdown' = md
    /\ lines' = Split(md)
    /\ li' = 1
    /\ typst_lines' = <<>>
    /\ in_code_block' = FALSE
    /\ code_lang' = <<>>
    /\ line' = <<>>
    /\ ret' = <<>>
    /\ raised' = ""

InLoop == pc = "loop" /\ li <= Len(lines)

\* what a fence line appends when it opens a block, lines 199-207
OpenFence(l) ==
    LET parts == Strip(Drop(l, 3))
    IN IF parts # <<>>
       THEN (IF parts = Rata THEN RataOpen ELSE Fence \o parts)
       ELSE Fence

\* lines 193-209
FenceLine ==
    /\ InLoop
    /\ StartsWith(lines[li], Fence)
    /\ line' = lines[li]
    /\ IF in_code_block
       THEN /\ typst_lines' = Append(typst_lines, Fence)
            /\ in_code_block' = FALSE
            /\ UNCHANGED code_lang
       ELSE /\ typst_lines' = Append(typst_lines, OpenFence(lines[li]))
            /\ code_lang' = (IF Strip(Drop(lines[li], 3)) # <<>>
                             THEN Strip(Drop(lines[li], 3)) ELSE code_lang)
            /\ in_code_block' = TRUE
    /\ li' = li + 1
    /\ UNCHANGED <<pc, markdown, lines, ret, raised>>
    /\ UNCHANGED buildVars

\* lines 211-213
CodeLine ==
    /\ InLoop
    /\ ~StartsWith(lines[li], Fence)
    /\ in_code_block
    /\ line' = lines[li]
    /\ typst_lines' = Append(typst_lines, lines[li])
    /\ li' = li + 1
    /\ UNCHANGED <<pc, markdown, lines, in_code_block, code_lang, ret, raised>>
    /\ UNCHANGED buildVars

\* the heading emitted for line l, lines 217-219
Heading(l) ==
    LET level == Len(l) - Len(LStripHash(l))
        heading_text == Strip(LStripHash(l))
    IN Repeat("=", level) \o <<" ">> \o heading_text

\* lines 216-220
HeadingLine ==
    /\ InLoop
    /\ ~StartsWith(lines[li], Fence)
    /\ ~in_code_block
    /\ StartsWith(lines[li], <<"#">>)
    /\ line' = lines[li]
    /\ typst_lines' = Append(typst_lines, Heading(lines[li]))
    /\ li' = li + 1
    /\ UNCHANGED <<pc, markdown, lines, in_code_block, code_lang, ret, raised>>
    /\ UNCHANGED buildVars

\* lines 222-232: the three substitutions run, then re.sub compiles the link
\* pattern and raises re.error; lines 234-251 (tables, paragraphs) are never
\* reached.  The exception leaves convert_markdown_section.
ParagraphLine ==
    /\ InLoop
    /\ ~StartsWith(lines[li], Fence)
    /\ ~in_code_block
    /\ ~StartsWith(lines[li], <<"#">>)
    /\ RegexError(LinkPattern)
    /\ line' = ItalicSub(BoldSub(InlineCodeSub(lines[li])))
    /\ raised' = "re.error"
    /\ pc' = "raised"
    /\ UNCHANGED <<markdown, lines, li, typst_lines, in_code_block, code_lang, ret>>
    /\ UNCHANGED buildVars

\* line 253
ReturnSection ==
    /\ pc = "loop"
    /\ li > Len(lines)
    /\ ret' = Join(typst_lines)
    /\ pc' = "returned"
    /\ UNCHANGED <<markdown, lines, li, typst_lines, in_code_block, code_lang, line, raised>>
    /\ UNCHANGED buildVars

(***************************************************************************)
(* Section texts                                                           *)
(***************************************************************************)
\* "# Title", a newline, "Some **bold** text."
TitleBoldText ==
    <<"#", " ", "T", "i", "t", "l", "e", LF, "S", "o", "m", "e", " ", "*",
    "*", "b", "o", "l", "d", "*", "*", " ", "t", "e", "x", "t", ".">>

HeadA ==
    <<"#", " ", "A">>

\* "# B", an open fence and the code line "x", separated by backslash, "n"
HeadBFence ==
    <<"#", " ", "B", BS, "n", BT, BT, BT, BS, "n", "x">>

Para ==
    <<"a">>

FileTexts == {TitleBoldText, HeadA, HeadBFence, Para}

Absent == [exists |-> FALSE, text |-> <<>>]
Present(t) == [exists |-> TRUE, text |-> t]
FileStates == {Absent} \cup {Present(t) : t \in FileTexts}

\* the structure list, lines 118-149, cut to ManifestLen entries; an entry is
\* named by its position, the titles of the list being pairwise distinct
Manifest == 1..ManifestLen

\* lines 165-174
PreambleLines ==
    << <<"#import \"template.typ\": *">>,
       <<>>,
       <<"#show: rata-manual.with(">>,
       <<"  title: \"Rata Programming Language Manual\",">>,
       <<"  subtitle: \"A Data Engineering Language\",">>,
       <<"  version: \"0.0.1-alpha\",">>,
       <<"  author: \"The Rata Team\"">>,
       <<")">>,
       <<>> >>

NoFile == [exists |-> FALSE, text |-> <<>>]
PriorTyp == [exists |-> TRUE, text |-> <<"prior run">>]

AllFormats == {"typst", "pdf", "html"}
FormatChoices == {"pdf", "typst", "html", "all"}

(***************************************************************************)
(* The build: main, build_all, build_typst, build_pdf, build_html          *)
(***************************************************************************)
rewriterVars == <<markdown, lines, li, typst_lines, in_code_block, code_lang,
                  line, ret>>

Init ==
    /\ pc = "main"
    /\ args_format = ""
    /\ formats = {}
    /\ success = TRUE
    /\ exit_code = -1
    /\ files \in [Manifest -> FileStates]
    /\ typ_file \in {NoFile, PriorTyp}
    /\ pdf_file \in {"none", "prior"}
    /\ content = <<>>
    /\ entry = 0
    /\ warnings = <<>>
    /\ typst_content = <<>>
    /\ sec = 0
    /\ markdown = <<>>
    /\ lines = <<>>
    /\ li = 0
    /\ typst_lines = <<>>
    /\ in_code_block = FALSE
    /\ code_lang = <<>>
    /\ line = <<>>
    /\ ret = <<>>
    /\ raised = ""
    /\ typst_res = "none"
    /\ pdf_res = "none"
    /\ html_res = "none"
    /\ compiler_calls = 0

\* main, lines 278-294: the command line decides formats
Main(f) ==
    /\ pc = "main"
    /\ args_format' = f
    /\ formats' = (IF f = "all" THEN {"typst", "pdf"} ELSE {f})
    /\ pc' = "build_all"
    /\ UNCHANGED <<success, exit_code, files, typ_file, pdf_file, content, entry,
                   warnings, typst_content, sec, raised, typst_res, pdf_res,
                   html_res, compiler_calls>>
    /\ UNCHANGED rewriterVars

\* build_all called by a library user with a list of its own
CallBuildAll(fs) ==
    /\ pc = "main"
    /\ formats' = fs
    /\ pc' = "build_all"
    /\ UNCHANGED <<args_format, success, exit_code, files, typ_file, pdf_file,
                   content, entry, warnings, typst_content, sec, raised,
                   typst_res, pdf_res, html_res, compiler_calls>>
    /\ UNCHANGED rewriterVars

\* line 32 without its pdf alternative
WantsTypstOnly(fs) == "typst" \in fs

\* line 32 also taking html
WantsTypstOrHtml(fs) == "pdf" \in fs \/ "typst" \in fs \/ "html" \in fs

\* the condition of line 32
WantsTypst(fs) == "pdf" \in fs \/ "typst" \in fs

\* line 35 testing the condition of line 32
WantsPdfTypstToo(fs) == "pdf" \in fs \/ "typst" \in fs

\* the condition of line 35
WantsPdf(fs) == "pdf" \in fs

\* the condition of line 38
WantsHtml(fs) == "html" \in fs

\* lines 30-33, up to the call of build_typst
BuildAllTypst ==
    /\ pc = "build_all"
    /\ success' = TRUE
    /\ pc' = (IF WantsTypst(formats) THEN "mkdir" ELSE "ba_pdf")
    /\ UNCHANGED <<args_format, formats, exit_code, files, typ_file, pdf_file,
                   content, entry, warnings, typst_content, sec, raised,
                   typst_res, pdf_res, html_res, compiler_calls>>
    /\ UNCHANGED rewriterVars

\* line 49; the directory may fail to be created
Mkdir(ok) ==
    /\ pc = "mkdir"
    /\ IF ok
       THEN /\ pc' = "collect"
            /\ content' = <<>>
            /\ entry' = 1
            /\ UNCHANGED raised
       ELSE /\ pc' = "raised"
            /\ raised' = "OSError"
            /\ UNCHANGED <<content, entry>>
    /\ UNCHANGED <<args_format, formats, success, exit_code, files, typ_file,
                   pdf_file, warnings, typst_content, sec, typst_res, pdf_res,
                   html_res, compiler_calls>>
    /\ UNCHANGED rewriterVars

\* the collector putting each file read in front of the earlier ones
CollectEntryReversed(readable) ==
    /\ pc = "collect"
    /\ entry <= ManifestLen
    /\ IF files[entry].exists
       THEN IF readable
            THEN /\ content' = <<[title |-> entry, text |-> files[entry].text]>> \o content
                 /\ entry' = entry + 1
                 /\ UNCHANGED <<pc, raised, warnings>>
            ELSE /\ pc' = "raised"
                 /\ raised' = "OSError"
                 /\ UNCHANGED <<content, entry, warnings>>
       ELSE /\ warnings' = Append(warnings, entry)
            /\ entry' = entry + 1
            /\ UNCHANGED <<pc, raised, content>>
    /\ UNCHANGED <<args_format, formats, success, exit_code, files, typ_file,
                   pdf_file, typst_content, sec, typst_res, pdf_res, html_res,
                   compiler_calls>>
    /\ UNCHANGED rewriterVars

\* lines 151-157, one manifest entry; a file that exists may be unreadable
CollectEntry(readable) ==
    /\ pc = "collect"
    /\ entry <= ManifestLen
    /\ IF files[entry].exists
       THEN IF readable
            THEN /\ content' = Append(content, [title |-> entry, text |-> files[entry].text])
                 /\ entry' = entry + 1
                 /\ UNCHANGED <<pc, raised, warnings>>
            ELSE /\ pc' = "raised"
                 /\ raised' = "OSError"
                 /\ UNCHANGED <<content, entry, warnings>>
       ELSE /\ warnings' = Append(warnings, entry)
            /\ entry' = entry + 1
            /\ UNCHANGED <<pc, raised, content>>
    /\ UNCHANGED <<args_format, formats, success, exit_code, files, typ_file,
                   pdf_file, typst_content, sec, typst_res, pdf_res, html_res,
                   compiler_calls>>
    /\ UNCHANGED rewriterVars

\* build_typst opening the output file before the sections are converted
PreambleOpensFile ==
    /\ pc = "collect"
    /\ entry > ManifestLen
    /\ typst_content' = PreambleLines
    /\ typ_file' = [exists |-> TRUE, text |-> <<>>]
    /\ sec' = 1
    /\ pc' = "sections"
    /\ UNCHANGED <<args_format, formats, success, exit_code, files,
                   pdf_file, content, entry, warnings, raised, typst_res, pdf_res,
                   html_res, compiler_calls>>
    /\ UNCHANGED rewriterVars

\* line 159 and lines 165-174
Preamble ==
    /\ pc = "collect"
    /\ entry > ManifestLen
    /\ typst_content' = PreambleLines
    /\ sec' = 1
    /\ pc' = "sections"
    /\ UNCHANGED <<args_format, formats, success, exit_code, files, typ_file,
                   pdf_file, content, entry, warnings, raised, typst_res, pdf_res,
                   html_res, compiler_calls>>
    /\ UNCHANGED rewriterVars

\* lines 177-178 and 186-189
StartSection ==
    /\ pc = "sections"
    /\ sec <= Len(content)
    /\ EnterSection(content[sec].text)
    /\ pc' = "loop"
    /\ UNCHANGED buildVars

\* lines 179-180
AppendSection ==
    /\ pc = "returned"
    /\ typst_content' = typst_content \o <<ret, <<>>>>
    /\ sec' = sec + 1
    /\ pc' = "sections"
    /\ UNCHANGED <<args_format, formats, success, exit_code, files, typ_file,
                   pdf_file, content, entry, warnings, raised, typst_res, pdf_res,
                   html_res, compiler_calls>>
    /\ UNCHANGED rewriterVars

\* line 182 and lines 58-63, then line 33; open may fail, and so may write
\* once open has truncated the file
WriteTypst(io) ==
    /\ pc = "sections"
    /\ sec > Len(content)
    /\ CASE io = "ok" ->
              /\ typ_file' = [exists |-> TRUE, text |-> Join(typst_content)]
              /\ typst_res' = "ok"
              /\ pc' = "ba_pdf"
              /\ UNCHANGED raised
         [] io = "open_fails" ->
              /\ pc' = "raised"
              /\ raised' = "OSError"
              /\ UNCHANGED <<typ_file, typst_res>>
         [] io = "write_fails" ->
              /\ typ_file' = [exists |-> TRUE, text |-> <<>>]
              /\ pc' = "raised"
              /\ raised' = "OSError"
              /\ UNCHANGED typst_res
    /\ UNCHANGED <<args_format, formats, success, exit_code, files, pdf_file,
                   content, entry, warnings, typst_content, sec, pdf_res, html_res,
                   compiler_calls>>
    /\ UNCHANGED rewriterVars

\* build_typst without its except clause: the exception ends build_all
TypstExceptPropagates ==
    /\ pc = "raised"
    /\ typst_res' = "fail"
    /\ success' = FALSE
    /\ pc' = "done"
    /\ UNCHANGED <<args_format, formats, exit_code, files, typ_file, pdf_file,
                   content, entry, warnings, typst_content, sec, raised, pdf_res,
                   html_res, compiler_calls>>
    /\ UNCHANGED rewriterVars

\* lines 65-67, then line 33
TypstExcept ==
    /\ pc = "raised"
    /\ raised' = ""
    /\ typst_res' = "fail"
    /\ success' = FALSE
    /\ pc' = "ba_pdf"
    /\ UNCHANGED <<args_format, formats, exit_code, files, typ_file, pdf_file,
                   content, entry, warnings, typst_content, sec, pdf_res, html_res,
                   compiler_calls>>
    /\ UNCHANGED rewriterVars

\* line 35
BuildAllPdf ==
    /\ pc = "ba_pdf"
    /\ pc' = (IF WantsPdf(formats) THEN "pdf" ELSE "ba_html")
    /\ UNCHANGED <<args_format, formats, success, exit_code, files, typ_file,
                   pdf_file, content, entry, warnings, typst_content, sec, raised,
                   typst_res, pdf_res, html_res, compiler_calls>>
    /\ UNCHANGED rewriterVars

\* outcomes of subprocess.run(["typst", "compile", ...], check=True)
CompilerOutcomes == {"ok", "compile_error", "not_installed"}

\* build_pdf deleting the Typst file when the compiler fails
BuildPdfRemovesTypst(outcome) ==
    /\ pc = "pdf"
    /\ IF ~typ_file.exists
       THEN /\ pdf_res' = "no_typst"
            /\ success' = FALSE
            /\ UNCHANGED <<compiler_calls, pdf_file, typ_file>>
       ELSE /\ compiler_calls' = compiler_calls + 1
            /\ pdf_res' = outcome
            /\ pdf_file' = (IF outcome = "ok" THEN "new" ELSE pdf_file)
            /\ typ_file' = (IF outcome = "ok" THEN typ_file ELSE NoFile)
            /\ success' = (success /\ outcome = "ok")
    /\ pc' = "ba_html"
    /\ UNCHANGED <<args_format, formats, exit_code, files, content,
                   entry, warnings, typst_content, sec, raised, typst_res,
                   html_res>>
    /\ UNCHANGED rewriterVars

\* build_pdf, lines 73-98, then line 36
BuildPdf(outcome) ==
    /\ pc = "pdf"
    /\ IF ~typ_file.exists
       THEN /\ pdf_res' = "no_typst"
            /\ success' = FALSE
            /\ UNCHANGED <<compiler_calls, pdf_file>>
       ELSE /\ compiler_calls' = compiler_calls + 1
            /\ pdf_res' = outcome
            /\ pdf_file' = (IF outcome = "ok" THEN "new" ELSE pdf_file)
            /\ success' = (success /\ outcome = "ok")
    /\ pc' = "ba_html"
    /\ UNCHANGED <<args_format, formats, exit_code, files, typ_file, content,
                   entry, warnings, typst_content, sec, raised, typst_res,
                   html_res>>
    /\ UNCHANGED rewriterVars

\* line 38
BuildAllHtml ==
    /\ pc = "ba_html"
    /\ pc' = (IF WantsHtml(formats) THEN "html" ELSE "ba_return")
    /\ UNCHANGED <<args_format, formats, success, exit_code, files, typ_file,
                   pdf_file, content, entry, warnings, typst_content, sec, raised,
                   typst_res, pdf_res, html_res, compiler_calls>>
    /\ UNCHANGED rewriterVars

\* build_html, lines 100-107, then line 39
BuildHtml ==
    /\ pc = "html"
    /\ html_res' = "ok"
    /\ pc' = "ba_return"
    /\ UNCHANGED <<args_format, formats, success, exit_code, files, typ_file,
                   pdf_file, content, entry, warnings, typst_content, sec, raised,
                   typst_res, pdf_res, compiler_calls>>
    /\ UNCHANGED rewriterVars

\* main without the sys.exit(1) of line 301
ExitCodeAlwaysZero(ok) == IF ok THEN 0 ELSE 0

\* the exit code main leaves for a result of build_all, lines 296-301
ExitCode(ok) == IF ok THEN 0 ELSE 1

\* line 41, and lines 294-301 when the run came from the command line
Return ==
    /\ pc = "ba_return"
    /\ exit_code' = (IF args_format # "" THEN ExitCode(success) ELSE exit_code)
    /\ pc' = "done"
    /\ UNCHANGED <<args_format, formats, success, files, typ_file, pdf_file,
                   content, entry, warnings, typst_content, sec, raised,
                   typst_res, pdf_res, html_res, compiler_calls>>
    /\ UNCHANGED rewriterVars

Next ==
    \/ \E f \in FormatChoices : Main(f)
    \/ \E fs \in SUBSET AllFormats : CallBuildAll(fs)
    \/ BuildAllTypst
    \/ \E ok \in BOOLEAN : Mkdir(ok)
    \/ \E readable \in BOOLEAN : CollectEntry(readable)
    \/ Preamble
    \/ StartSection
    \/ FenceLine
    \/ CodeLine
    \/ HeadingLine
    \/ ParagraphLine
    \/ ReturnSection
    \/ AppendSection
    \/ \E io \in {"ok", "open_fails", "write_fails"} : WriteTypst(io)
    \/ TypstExcept
    \/ BuildAllPdf
    \/ \E outcome \in CompilerOutcomes : BuildPdf(outcome)
    \/ BuildAllHtml
    \/ BuildHtml
    \/ Return

Spec == Init /\ [][Next]_vars

(***************************************************************************)
(* convert_markdown_section called on its own                              *)
(***************************************************************************)
Py == <<"p", "y">>
CodeLines == {<<"x">>, <<"#", " ", "x">>, <<"*", "x", "*">>}

\* an opening fence tagged lang, a code line, a closing fence, on three lines
FenceText(lang, code) == Fence \o lang \o <<LF>> \o code \o <<LF>> \o Fence

HeadingInput(n, t) == Repeat("#", n) \o <<" ">> \o t

BoldX ==
    <<"*", "*", "x", "*", "*">>

ItalicX ==
    <<"*", "x", "*">>

RowABC ==
    <<"|", " ", "a", " ", "|", " ", "b", " ", "|", " ", "c", " ", "|">>

LinkLine ==
    <<"[", "L", "a", "b", "e", "l", "]", "(", "h", "t", "t", "p", ":", "/",
    "/", "e", "x", "a", "m", "p", "l", "e", ".", "c", "o", "m", ")">>

RowA ==
    <<"|", " ", "a", " ", "|">>

\* k table rows, each on a line of its own, then a blank line
RECURSIVE TableBlock(_)
TableBlock(k) == IF k = 0 THEN <<LF>> ELSE RowA \o <<LF>> \o TableBlock(k - 1)

ConvertInputs ==
    Texts(MaxLen)
    \cup {HeadingInput(n, t) : n \in 1..MaxLevel, t \in Texts(MaxText)}
    \cup {FenceText(lang, code) : lang \in {Rata, Py}, code \in CodeLines}
    \cup {TitleBoldText, HeadBFence, BoldX, ItalicX, RowABC}
    \cup {LinkLine, TableBlock(1), TableBlock(2)}

InitConvert ==
    /\ pc = "loop"
    /\ args_format = ""
    /\ formats = {}
    /\ success = TRUE
    /\ exit_code = -1
    /\ files = [i \in Manifest |-> Absent]
    /\ typ_file = NoFile
    /\ pdf_file = "none"
    /\ content = <<>>
    /\ entry = 0
    /\ warnings = <<>>
    /\ typst_content = <<>>
    /\ sec = 0
    /\ markdown \in ConvertInputs
    /\ lines = Split(markdown)
    /\ li = 1
    /\ typst_lines = <<>>
    /\ in_code_block = FALSE
    /\ code_lang = <<>>
    /\ line = <<>>
    /\ ret = <<>>
    /\ raised = ""
    /\ typst_res = "none"
    /\ pdf_res = "none"
    /\ html_res = "none"
    /\ compiler_calls = 0

NextConvert ==
    \/ FenceLine
    \/ CodeLine
    \/ HeadingLine
    \/ ParagraphLine
    \/ ReturnSection

SpecConvert == InitConvert /\ [][NextConvert]_vars

\* the call is over: it returned or it raised
Over == pc \in {"returned", "raised"}

(***************************************************************************)
(* Properties                                                              *)
(***************************************************************************)

\* C1: a single line of n '#', a space and a text converts to n '=', a
\* space and the text stripped, whatever markup the text holds.
C1_HeadingConversion ==
    \A n \in 1..MaxLevel, t \in Texts(MaxText) :
        (Over /\ markdown = HeadingInput(n, t))
            => (pc = "returned" /\ ret = Repeat("=", n) \o <<" ">> \o Strip(t))

\* C2: the span **x** becomes *x* and is not made italic as well; the span
\* *x* becomes _x_.
C2_BoldItalicPrecedence ==
    /\ (Over /\ markdown = BoldX) => (pc = "returned" /\ ret = <<"*", "x", "*">>)
    /\ (Over /\ markdown = ItalicX) => (pc = "returned" /\ ret = <<"_", "x", "_">>)

\* C3: an opening fence tagged lang, one code line and a closing fence give
\* one open-fence line carrying lang (the wrapped form for rata), the code
\* line unchanged, and one plain closing fence.
C3_CodeFenceStructure ==
    \A lang \in {Rata, Py}, code \in CodeLines :
        (Over /\ markdown = FenceText(lang, code))
            => /\ pc = "returned"
               /\ ret = (IF lang = Rata THEN RataOpen ELSE Fence \o lang)
                            \o <<LF>> \o code \o <<LF>> \o Fence

\* C5: the rewriter raises no error, whatever the section text.
C5_RewriterNeverFails == pc # "raised" /\ raised = ""

RowABCTuple ==
    <<" ", " ", "(", "[", "a", "]", ",", " ", "[", "b", "]", ",", " ", "[",
    "c", "]", ")", ",">>

\* C10: the line "| a | b | c |" is converted to one row tuple of the three
\* bracketed, trimmed cells and a trailing comma.
C10_TableRow ==
    (Over /\ markdown = RowABC)
        => /\ pc = "returned"
           /\ typst_lines # <<>>
           /\ typst_lines[Len(typst_lines)] = RowABCTuple

\* the section the two lines of TitleBoldText are to become
TitleBoldSection ==
    <<"=", " ", "T", "i", "t", "l", "e", LF, "S", "o", "m", "e", " ", "*",
    "b", "o", "l", "d", "*", " ", "t", "e", "x", "t", ".">>

\* C4: with a first file holding "# Title" and "Some **bold** text." on two
\* lines and a second file missing, the document written has one section,
\* the heading converted and bold in single asterisks on the next line, and
\* one missing-file warning, for the second file.
C4_EndToEnd ==
    (/\ ManifestLen = 2
     /\ typst_res = "ok"
     /\ files[1] = Present(TitleBoldText)
     /\ ~files[ManifestLen].exists)
        => /\ typst_content = PreambleLines \o <<TitleBoldSection, <<>>>>
           /\ warnings = <<ManifestLen>>

Failing == {"fail", "no_typst", "compile_error", "not_installed"}

\* the phase of format f ended in failure
FormatFailed(f) ==
    CASE f = "typst" -> typst_res \in Failing
      [] f = "pdf" -> pdf_res \in Failing
      [] f = "html" -> html_res \in Failing

\* C6 as stated: the exit code is non-zero exactly when a requested format
\* failed.
C6_ExitCodeAsStated ==
    (pc = "done" /\ args_format # "")
        => ((exit_code # 0) <=> (\E f \in formats : FormatFailed(f)))

\* C6, amended: the exit code is non-zero exactly when a phase that ran
\* failed, typst generation being a phase of a pdf request too; a pdf-only
\* run exits 0 exactly when typst generation succeeded and the PDF was made.
C6_ExitCode ==
    (pc = "done" /\ args_format # "")
        => /\ exit_code \in {0, 1}
           /\ (exit_code # 0) <=> (\E f \in AllFormats : FormatFailed(f))
           /\ args_format = "pdf"
                => ((exit_code = 0) <=> (typst_res = "ok" /\ pdf_res = "ok"))

C6_Witness ==
    /\ pc = "done"
    /\ args_format = "pdf"
    /\ typst_res = "fail"
    /\ pdf_res = "ok"
    /\ exit_code = 1

\* what each text of FileTexts converts to (Para raises instead)
ExpectedOut(t) ==
    CASE t = TitleBoldText -> <<"=", " ">> \o Drop(TitleBoldText, 2)
      [] t = HeadA -> <<"=", " ", "A">>
      [] t = HeadBFence -> <<"=", " ", "B", BS, "n", BT, BT, BT, BS, "n", "x">>

RECURSIVE ExpectedPieces(_)
ExpectedPieces(i) ==
    IF i > ManifestLen THEN <<>>
    ELSE (IF files[i].exists THEN <<ExpectedOut(files[i].text), <<>>>> ELSE <<>>)
             \o ExpectedPieces(i + 1)

\* C7: the sections of the document written are those of the files that
\* exist, in manifest order; a missing file adds nothing, not a blank line.
C7_ManifestOrder ==
    typst_res = "ok"
        => /\ typst_content = PreambleLines \o ExpectedPieces(1)
           /\ typ_file.text = Join(PreambleLines \o ExpectedPieces(1))

C7_Witness ==
    /\ pc = "done"
    /\ typst_res = "ok"
    /\ files[1] = Present(HeadBFence)
    /\ files[ManifestLen] = Present(HeadA)

\* C8: a run for the typst format alone never invokes the compiler.
C8_TypstNeverCompiles ==
    (args_format = "typst" \/ (pc # "main" /\ formats = {"typst"}))
        => (compiler_calls = 0 /\ pdf_res = "none" /\ pc # "pdf")

C8_Witness ==
    /\ pc = "done"
    /\ args_format = "typst"
    /\ typst_res = "ok"
    /\ typ_file.exists

LinkCall ==
    <<"#", "l", "i", "n", "k", "(", "\"", "h", "t", "t", "p", ":", "/", "/",
    "e", "x", "a", "m", "p", "l", "e", ".", "c", "o", "m", "\"", ")", "[",
    "L", "a", "b", "e", "l", "]">>

\* C11: the line [Label](http://example.com) becomes the Typst link call
\* with that target and the body Label.
C11_LinkRewrite ==
    (Over /\ markdown = LinkLine) => (pc = "returned" /\ ret = LinkCall)

TableOpen ==
    <<"#", "t", "a", "b", "l", "e", "(">>

ColumnsOne ==
    <<" ", " ", "c", "o", "l", "u", "m", "n", "s", ":", " ", "1", ",">>

RowATuple ==
    <<" ", " ", "(", "[", "a", "]", ")", ",">>

\* C16: k table rows and a blank line give one table-opening line, one
\* column-count line, the k row tuples, and one closing parenthesis.
C16_TableOpenClose ==
    \A k \in 1..2 :
        (Over /\ markdown = TableBlock(k))
            => /\ pc = "returned"
               /\ Len(typst_lines) >= k + 3
               /\ SubSeq(typst_lines, 1, k + 3)
                    = <<TableOpen, ColumnsOne>> \o [i \in 1..k |-> RowATuple] \o <<<<")">>>>
               /\ Cardinality({i \in 1..Len(typst_lines) : typst_lines[i] = TableOpen}) = 1
               /\ Cardinality({i \in 1..Len(typst_lines) : typst_lines[i] = <<")">>}) = 1

\* the lines of a text, as separated by newlines
RECURSIVE SplitLF(_)
SplitLF(s) ==
    LET k == RunLen(s, LF)
    IN IF k = Len(s) THEN <<s>>
       ELSE <<SubSeq(s, 1, k)>> \o SplitLF(Drop(s, k + 1))

FenceCount(ls) == Cardinality({i \in 1..Len(ls) : StartsWith(ls[i], Fence)})

\* C17: once the lines of a section are processed, the in-code-block flag
\* is true exactly when an odd number of them begin with a fence.
C17_CodeBlockStateMachine ==
    (pc = "returned" /\ FindSep(markdown) = 0)
        => (in_code_block <=> (FenceCount(SplitLF(markdown)) % 2 = 1))

\* one or more '#' and then a space
IsHeadingForm(t) ==
    /\ StartsWith(t, <<"#">>)
    /\ StartsWith(LStripHash(t), <<" ">>)

\* C19: a line is made a heading exactly when it is '#'s followed by a
\* space; a line beginning with '#' without the space is copied unchanged.
C19_HeadingApplicability ==
    \A t \in Texts(MaxLen) :
        (Over /\ markdown = t /\ StartsWith(t, <<"#">>) /\ FindSep(t) = 0)
            => /\ pc = "returned"
               /\ ret = (IF IsHeadingForm(t) THEN Heading(t) ELSE t)

\* Sep.join with the newline for separator
RECURSIVE JoinLF(_)
JoinLF(ls) ==
    IF ls = <<>> THEN <<>>
    ELSE IF Len(ls) = 1 THEN ls[1]
    ELSE ls[1] \o <<LF>> \o JoinLF(Tail(ls))

\* a blank line, the section's text, a blank line, for each section collected
RECURSIVE LayoutPieces(_)
LayoutPieces(i) ==
    IF i > Len(content) THEN <<>>
    ELSE <<<<>>, ExpectedOut(content[i].text), <<>>>> \o LayoutPieces(i + 1)

\* C12: the document is the preamble block (import line, configuration
\* call) then, per section in order, a blank line, the section's text and a
\* blank line, the pieces separated by line breaks.
C12_DocumentLayout ==
    (typst_res = "ok" /\ Len(content) >= 1)
        => typ_file.text = JoinLF(SubSeq(PreambleLines, 1, 8) \o LayoutPieces(1))

\* C13: when pdf is requested the compiler is invoked only once build_typst
\* has returned, at most once, and only on the Typst file on disk.
C13_PhaseOrder ==
    /\ [](compiler_calls <= 1)
    /\ [][compiler_calls' # compiler_calls
            => /\ pc = "pdf"
               /\ "pdf" \in formats
               /\ typst_res \in {"ok", "fail"}
               /\ raised = ""
               /\ typ_file.exists
               /\ compiler_calls' = 1]_vars

C13_Witness ==
    /\ pc = "done"
    /\ args_format = "all"
    /\ typst_res = "ok"
    /\ compiler_calls = 1
    /\ pdf_res = "ok"

\* C14: a compiler that is not installed, or that exits non-zero, fails
\* build_pdf with its own outcome, and leaves the Typst file generated in
\* the run and the result of the typst phase as they were.
C14_CompilerFailure ==
    /\ [](pdf_res \in {"compile_error", "not_installed"}
            => /\ ~success
               /\ compiler_calls = 1
               /\ pdf_file # "new"
               /\ typst_res = "ok"
                    => typ_file = [exists |-> TRUE, text |-> Join(typst_content)])
    /\ [][pc = "pdf" => (typ_file' = typ_file /\ typst_res' = typst_res)]_vars

C14_Witness ==
    /\ pc = "done"
    /\ typst_res = "ok"
    /\ pdf_res = "not_installed"
    /\ typ_file.exists

\* C15: build_html returns success and changes no file; a run for html
\* alone runs neither the collector, the rewriter nor the compiler, makes
\* no artifact, and exits with code 0.
C15_HtmlStub ==
    /\ [](args_format = "html"
            => /\ typst_res = "none"
               /\ pdf_res = "none"
               /\ compiler_calls = 0
               /\ content = <<>>
               /\ warnings = <<>>
               /\ typst_content = <<>>
               /\ lines = <<>>
               /\ pc \in {"build_all", "ba_pdf", "ba_html", "html", "ba_return", "done"}
               /\ pc = "done" => (exit_code = 0 /\ html_res = "ok"))
    /\ [][(args_format' = "html" \/ pc = "html")
            => (typ_file' = typ_file /\ pdf_file' = pdf_file)]_vars
    /\ [][pc = "html" => (html_res' = "ok" /\ success' = success)]_vars

C15_Witness ==
    /\ pc = "done"
    /\ args_format = "html"
    /\ html_res = "ok"
    /\ exit_code = 0
    /\ typ_file = PriorTyp

\* C18: every section starts outside a code block with nothing emitted, and
\* its text depends on its own markdown only, also after a section that
\* ended inside an open code block.
C18_NoStateLeak ==
    /\ (pc = "loop" /\ li = 1) => (~in_code_block /\ typst_lines = <<>>)
    /\ (pc = "returned" /\ sec >= 1)
            => /\ markdown \in {TitleBoldText, HeadA, HeadBFence}
               /\ ret = ExpectedOut(markdown)

C18_Witness ==
    /\ pc = "returned"
    /\ sec = 2
    /\ content[1].text = HeadBFence
    /\ markdown = HeadA
    /\ ret = <<"=", " ", "A">>

\* C20: build_typst hands no exception to its caller and writes the Typst
\* file only once every file is collected and every section converted; a
\* failure before that returns False and leaves the file as it was.
C20_AtomicTypstOutput ==
    /\ [](raised # "" => pc = "raised")
    /\ [][typ_file' # typ_file
            => (pc = "sections" /\ sec > Len(content) /\ entry > ManifestLen)]_vars
    /\ [][pc = "raised"
            => /\ pc' = "ba_pdf"
               /\ raised' = ""
               /\ typst_res' = "fail"
               /\ ~success'
               /\ typ_file' = typ_file]_vars

C20_Witness ==
    /\ pc = "ba_pdf"
    /\ typst_res = "fail"
    /\ typ_file = PriorTyp
    /\ sec >= 1
    /\ sec <= Len(content)

====
